---------------------------- MODULE Spec2Model ----------------------------
(***************************************************************************)
(* A model of tree_time/gtr.py: the General-Time-Reversible substitution   *)
(* model (class GTR), its construction (GTR.__init__, GTR.standard), the   *)
(* validation of the rate matrix (_check_fix_Q), its eigendecomposition    *)
(* (_eig) and the queries prob_t, optimal_t, propagate_profile, create_dm. *)
(*                                                                         *)
(* Floating-point values are modelled by exact rationals <<n, d>> (d > 0,  *)
(* lowest terms), extended by the IEEE specials that numpy produces        *)
(* instead of raising (nan, +inf, -inf) and by one value, Untracked, that  *)
(* stands for a finite real the model does not compute (exp and log of     *)
(* arguments whose image is irrational).  Rounding error of the double     *)
(* arithmetic (about 1e-16 on the values used here) is not modelled.       *)
(***************************************************************************)
EXTENDS Integers, Sequences, FiniteSets, TLC

(***************************************************************************)
(* Bounds of the model.                                                    *)
(***************************************************************************)
\* profiles have 1..MaxSites sites
MaxSites == 2
\* create_dm is called with 0..MaxProfiles profiles
MaxProfiles == 2
\* the random preset draws from 0..RandBound-1 (the code: 0..99)
RandBound == 2
\* entries of a directly assigned W lie in -MaxEntry..MaxEntry,
\* diagonal entries of a directly assigned Pi in {0..MaxEntry} / 2
MaxEntry == 2

(***************************************************************************)
(* Numbers.                                                                *)
(***************************************************************************)
NaN       == <<0, 0>>
PInf      == <<1, 0>>
NInf      == <<-1, 0>>
Untracked == <<0, -1>>
Zero      == <<0, 1>>
One       == <<1, 1>>

IsFinite(x) == x[2] > 0
IsInf(x)    == x[2] = 0 /\ x[1] # 0

Abs(n) == IF n < 0 THEN -n ELSE n
Sign(n) == IF n < 0 THEN -1 ELSE IF n > 0 THEN 1 ELSE 0

RECURSIVE GCD(_, _)
GCD(m, n) == IF n = 0 THEN m ELSE GCD(n, m % n)

\* the rational n/d (d # 0) in lowest terms with a positive denominator
Rat(n, d) ==
    IF d = 1 THEN <<n, 1>>
    ELSE LET g == GCD(Abs(n), Abs(d))
             s == IF d < 0 THEN -1 ELSE 1
         IN  <<(s * n) \div g, Abs(d) \div g>>

Neg(x) == IF x = NaN \/ x = Untracked THEN x ELSE <<-x[1], x[2]>>

Add(x, y) ==
    IF IsFinite(x) /\ IsFinite(y)
    THEN Rat(x[1] * y[2] + y[1] * x[2], x[2] * y[2])
    ELSE IF x = NaN \/ y = NaN THEN NaN
    ELSE IF x = Untracked \/ y = Untracked THEN Untracked
    ELSE IF IsInf(x) /\ IsInf(y) THEN (IF x = y THEN x ELSE NaN)
    ELSE IF IsInf(x) THEN x ELSE y

Mul(x, y) ==
    IF IsFinite(x) /\ IsFinite(y) THEN Rat(x[1] * y[1], x[2] * y[2])
    ELSE IF x = NaN \/ y = NaN THEN NaN
    ELSE IF x = Untracked \/ y = Untracked
         THEN (IF x = Zero \/ y = Zero THEN Zero ELSE Untracked)
    ELSE IF x = Zero \/ y = Zero THEN NaN
    ELSE <<Sign(x[1]) * Sign(y[1]), 0>>

Div(x, y) ==
    IF x = NaN \/ y = NaN THEN NaN
    ELSE IF x = Untracked \/ y = Untracked THEN Untracked
    ELSE IF IsFinite(x) /\ IsFinite(y)
         THEN (IF y[1] # 0 THEN Rat(x[1] * y[2], x[2] * y[1])
               ELSE <<Sign(x[1]), 0>>)
    ELSE IF IsInf(x) /\ IsInf(y) THEN NaN
    ELSE IF IsInf(x) THEN <<Sign(x[1]) * (IF y[1] < 0 THEN -1 ELSE 1), 0>>
    ELSE Zero

\* x < y on floats: every comparison with nan is False
Lt(x, y) ==
    IF x = NaN \/ y = NaN \/ x = Untracked \/ y = Untracked THEN FALSE
    ELSE IF IsFinite(x) /\ IsFinite(y) THEN x[1] * y[2] < y[1] * x[2]
    ELSE IF IsInf(x) /\ IsInf(y) THEN x = NInf /\ y = PInf
    ELSE IF IsInf(x) THEN x = NInf ELSE y = PInf

\* The tolerance 1e-10 of _check_fix_Q is 1 / (TOL_INV_ROOT * TOL_INV_ROOT).
TOL_INV_ROOT == 100000

\* x < 1e-10.  For n/d with d > 0:  n * 10^10 < d  iff
\* n <= ((d - 1) \div 10^5) \div 10^5  (no product leaves the 32 bits).
LtTol(x) ==
    IF x = NaN \/ x = Untracked THEN FALSE
    ELSE IF IsInf(x) THEN x = NInf
    ELSE x[1] <= ((x[2] - 1) \div TOL_INV_ROOT) \div TOL_INV_ROOT

\* |x| <= 1e-10, the reading "sums to zero within 1e-10"
WithinTol(x) ==
    IsFinite(x) /\ Abs(x[1]) * TOL_INV_ROOT <= x[2] \div TOL_INV_ROOT

RECURSIVE SumSeq(_)
SumSeq(s) == IF s = <<>> THEN Zero ELSE Add(Head(s), SumSeq(Tail(s)))

RECURSIVE ProdSeq(_)
ProdSeq(s) == IF s = <<>> THEN One ELSE Mul(Head(s), ProdSeq(Tail(s)))

(***************************************************************************)
(* Arrays: a matrix is the sequence of its rows, a vector a sequence.      *)
(***************************************************************************)
\* The({e : x \in {v}}) is e with the local x bound to the value of v
The(S) == CHOOSE r \in S : TRUE

Rows(A) == Len(A)
Cols(A) == IF A = <<>> THEN 0 ELSE Len(A[1])

\* the array with the entries f[1], ..., f[n], each computed once
Vec(f) == f \o <<>>
Mat(f) == [i \in DOMAIN f |-> Vec(f[i])] \o <<>>

zeros(m, n) == Mat([i \in 1..m |-> [j \in 1..n |-> Zero]])
ones(m, n)  == Mat([i \in 1..m |-> [j \in 1..n |-> One]])
zeros1(n)   == Vec([j \in 1..n |-> Zero])

\* A.dot(B)
dot(A, B) ==
    Mat([i \in 1..Rows(A) |->
            [j \in 1..Cols(B) |->
                SumSeq(Vec([l \in 1..Rows(B) |-> Mul(A[i][l], B[l][j])]))]])

\* A.T
T_(A) == Mat([j \in 1..Cols(A) |-> [i \in 1..Rows(A) |-> A[i][j]]])

\* A.sum(0): the sums of the columns
sum0(A) == Vec([j \in 1..Cols(A) |-> SumSeq(Vec([i \in 1..Rows(A) |-> A[i][j]]))])

\* A.sum(1): the sums of the rows
sum1(A) == Vec([i \in 1..Rows(A) |-> SumSeq(A[i])])

\* A.sum(): the sum of all entries
sumAll(A) == SumSeq(sum1(A))

\* np.diagonal(A)
diagonal(A) == Vec([i \in 1..Rows(A) |-> A[i][i]])

\* np.fill_diagonal(A, d) with a vector d
fill_diagonal(A, d) ==
    Mat([i \in 1..Rows(A) |->
            [j \in 1..Cols(A) |-> IF i = j THEN d[i] ELSE A[i][j]]])

\* np.diagflat(d)
diagflat(d) ==
    Mat([i \in 1..Len(d) |-> [j \in 1..Len(d) |-> IF i = j THEN d[i] ELSE Zero]])

\* A * d and A / s: a vector broadcast along the rows, a scalar
mulRow(A, d) ==
    Mat([i \in 1..Rows(A) |-> [j \in 1..Cols(A) |-> Mul(A[i][j], d[j])]])
divScalar(A, s) ==
    Mat([i \in 1..Rows(A) |-> [j \in 1..Cols(A) |-> Div(A[i][j], s)]])

(***************************************************************************)
(* GTR._check_fix_Q                                                        *)
(***************************************************************************)
\* (Q.sum(0) < 1e-10).sum() < a : "at least one rate is wrong"
RatesWrong(Q, a) == Cardinality({j \in 1..Cols(Q) : LtTol(sum0(Q)[j])}) < a

\* the repaired pair: Pi /= Pi.sum(); the diagonal of W recomputed
FixedPi(Pi_) == divScalar(Pi_, sumAll(Pi_))

FixedW(Pi_, W_) ==
    The({The({fill_diagonal(W0,
                Vec([j \in 1..Rows(W_) |-> Div(Neg(s[j]), d[j])])) :
              s \in {sum0(T_(mulRow(T_(W0), d)))}}) :
         d \in {diagonal(FixedPi(Pi_))},
         W0 \in {fill_diagonal(W_, zeros1(Rows(W_)))}})

\* The outcome of self._check_fix_Q() on a model holding (Pi_, W_) over an
\* alphabet of a symbols: the fields afterwards and how the call ended.
check_fix_Q(Pi_, W_, a) ==
    IF RatesWrong(dot(Pi_, W_), a)
    THEN The({[Pi |-> P1, W |-> W1,
               exc |-> IF RatesWrong(dot(P1, W1), a)
                       THEN "ArithmeticError" ELSE "none"] :
              P1 \in {FixedPi(Pi_)}, W1 \in {FixedW(Pi_, W_)}})
    ELSE [Pi |-> Pi_, W |-> W_, exc |-> "none"]

(***************************************************************************)
(* Collaborators outside gtr.py.                                           *)
(***************************************************************************)
\* seq_utils.alphabets: identifier -> ordered symbols.  The model works
\* with reduced alphabets of two and three symbols.
alphabets == [nuc |-> <<"A", "C">>, aa |-> <<"A", "C", "D">>]

\* config.MAX_BRANCH_LENGTH
MAX_BRANCH_LENGTH == <<3, 2>>

\* np.exp, np.log
Exp(x) ==
    IF x = Zero THEN One
    ELSE IF x = NInf THEN Zero
    ELSE IF IsFinite(x) THEN Untracked
    ELSE x

Log(x) ==
    IF x = One THEN Zero
    ELSE IF x = Zero THEN NInf
    ELSE IF x = NInf THEN NaN
    ELSE IF IsFinite(x) THEN (IF x[1] < 0 THEN NaN ELSE Untracked)
    ELSE x

\* x + ttconf.TINY_NUMBER: a finite x moves to a value the model does not track
AddTiny(x) == IF IsFinite(x) THEN Untracked ELSE x

\* np.linalg.inv of a 2 x 2 matrix; <<>> when the matrix is singular
\* (numpy raises LinAlgError); the inverse of an untracked matrix is
\* untracked
inv(A) ==
    The({IF det = Untracked
         THEN Mat([i \in 1..Rows(A) |-> [j \in 1..Cols(A) |-> Untracked]])
         ELSE IF det = Zero \/ ~IsFinite(det) THEN <<>>
         ELSE << <<Div(A[2][2], det), Div(Neg(A[1][2]), det)>>,
                 <<Div(Neg(A[2][1]), det), Div(A[1][1], det)>> >> :
         det \in {Add(Mul(A[1][1], A[2][2]), Neg(Mul(A[1][2], A[2][1])))}})

\* np.linalg.eig of a 2 x 2 matrix whose columns sum to zero,
\* Q = [[-x, y], [x, -y]]: the eigenvalues 0 and -(x + y) with the
\* eigenvectors (y, x) and (1, -1); the identity basis for Q = 0.  numpy
\* scales each eigenvector to unit length and fixes their order itself;
\* no result of the queries depends on either.  Any other matrix is left
\* undecomposed (Untracked entries).
eig(Q) ==
    LET x == Q[2][1]
        y == Q[1][2]
        n == Rows(Q)
    IN  IF Q = zeros(n, n)
        THEN [eigvals |-> zeros1(n), eigvecs |-> diagflat(Vec([i \in 1..n |-> One]))]
        ELSE IF n = 2 /\ sum0(Q) = zeros1(2) /\ Add(x, y) # Zero
        THEN [eigvals |-> <<Zero, Neg(Add(x, y))>>,
              eigvecs |-> << <<y, One>>, <<x, Neg(One)>> >>]
        ELSE [eigvals |-> Vec([i \in 1..n |-> Untracked]),
              eigvecs |-> Mat([i \in 1..n |-> [j \in 1..n |-> Untracked]])]

(***************************************************************************)
(* The state.                                                              *)
(*   gtr   the GTR object: a record of its fields, or NoModel              *)
(*   pc    "new": no object yet; "ready": an object exists and no call is  *)
(*         running; "called": a call has run to its return or raise        *)
(*   call  the call that has just run: its name, arguments and the locals  *)
(*         the claims speak of                                             *)
(*   ret   how that call ended: the value returned or the exception raised *)
(***************************************************************************)
VARIABLES gtr, pc, call, ret

vars == <<gtr, pc, call, ret>>

None    == <<>>
NoModel == [alphabet_type |-> "None"]
NoCall  == [op |-> "none"]
NoRet   == [kind |-> "none"]

Return(val)  == [kind |-> "return", val |-> val]
Raise(exc)   == [kind |-> "raise", exc |-> exc]

\* the size a = alphabet.shape[0] of a model
ASize(g) == Len(g.alphabet)

(***************************************************************************)
(* GTR.__init__                                                            *)
(***************************************************************************)
AlphabetIds == {"nuc", "aa", "xyz"}

GTR(alphabet_type) ==
    IF alphabet_type \notin DOMAIN alphabets
    THEN [exc |-> "AttributeError", obj |-> NoModel]
    ELSE LET alphabet == alphabets[alphabet_type]
             a == Len(alphabet)
         IN  [exc |-> "none",
              obj |-> [alphabet_type |-> alphabet_type,
                       alphabet |-> alphabet,
                       W        |-> zeros(a, a),
                       Pi       |-> zeros(a, a),
                       mu       |-> One,
                       v        |-> zeros(a, a),
                       v_inv    |-> zeros(a, a),
                       eigenmat |-> zeros1(a),
                       dm       |-> None]]

(***************************************************************************)
(* GTR._eig                                                                *)
(***************************************************************************)
_eig(g) ==
    The({The({IF vi = <<>>
              THEN [exc |-> "LinAlgError", obj |-> [g EXCEPT !.v = e.eigvecs]]
              ELSE [exc |-> "none",
                    obj |-> [g EXCEPT !.v = e.eigvecs, !.v_inv = vi,
                                      !.eigenmat = e.eigvals]] :
              vi \in {inv(e.eigvecs)}}) :
         e \in {eig(dot(g.Pi, g.W))}})

\* self._check_fix_Q() then self._eig(), as both presets end
CheckFixEig(g) ==
    The({IF c.exc # "none"
         THEN [exc |-> c.exc, obj |-> [g EXCEPT !.Pi = c.Pi, !.W = c.W]]
         ELSE _eig([g EXCEPT !.Pi = c.Pi, !.W = c.W]) :
         c \in {check_fix_Q(g.Pi, g.W, ASize(g))}})

(***************************************************************************)
(* GTR.standard                                                            *)
(***************************************************************************)
Models =={"Jukes-Cantor", "random", "HKY"}
MuValues == {<<2, 1>>}

\* the flow matrix with the diagonal -(W.sum(0)): the 1 of the entry itself
\* not taken off
JC_W_FullColumnSum(a) ==
    LET W_ == ones(a, a)
    IN  fill_diagonal(W_, Vec([j \in 1..a |-> Neg(sum0(W_)[j])]))

\* the flow matrix of the Jukes-Cantor preset:
\* W = ones; fill_diagonal(W, -(W.sum(0) - 1))
JC_W(a) ==
    LET W_ == ones(a, a)
    IN  fill_diagonal(W_, Vec([j \in 1..a |-> Neg(Add(sum0(W_)[j], Neg(One)))]))

\* its equilibrium matrix: zeros with 1.0/a on the diagonal
JC_Pi(a) == fill_diagonal(zeros(a, a), Vec([j \in 1..a |-> Div(One, <<a, 1>>)]))

\* Pi = 1.0*randint(..); Pi /= Pi.sum()
RandomPi(draw) ==
    LET Pi_ == Vec([i \in 1..Len(draw) |-> <<draw[i], 1>>])
        s   == SumSeq(Pi_)
    IN  Vec([i \in 1..Len(draw) |-> Div(Pi_[i], s)])

\* W = 1.0*randint(..); W + W.T
RandomW(draw) ==
    LET W_ == Mat([i \in 1..Len(draw) |-> [j \in 1..Len(draw) |-> <<draw[i][j], 1>>]])
        Wt == T_(W_)
    IN  Mat([i \in 1..Len(draw) |-> [j \in 1..Len(draw) |-> Add(W_[i][j], Wt[i][j])]])

\* GTR.standard(model, **kwargs); kwargs is the dictionary of the options
\* passed; Pi_draw and W_draw are what np.random.randint returns.  The
\* result: the exception, the object returned, and the local Pi of the
\* random preset (None where it is never bound).
standard(model, kwargs, Pi_draw, W_draw) ==
    IF "alphabet" \in DOMAIN kwargs
    THEN \* line 39 reads the local `alphabet` before it is bound
         [exc |-> "UnboundLocalError", obj |-> NoModel, Pi |-> None]
    ELSE
    LET alphabet == "nuc"
        mu_ == IF "mu" \in DOMAIN kwargs THEN kwargs["mu"] ELSE One
    IN  IF model = "Jukes-Cantor"
        THEN LET g0 == GTR("nuc").obj
                 a  == ASize(g0)
             IN  The({[exc |-> r.exc,
                       obj |-> IF r.exc = "none" THEN r.obj ELSE NoModel,
                       Pi  |-> None] :
                      r \in {CheckFixEig([g0 EXCEPT !.mu = mu_, !.W = JC_W(a),
                                                    !.Pi = JC_Pi(a)])}})
        ELSE IF model = "random"
        THEN The({The({[exc |-> r.exc,
                            obj |-> IF r.exc = "none" THEN r.obj ELSE NoModel,
                            Pi  |-> Pi_] :
                           r \in {CheckFixEig([GTR(alphabet).obj EXCEPT
                                        !.mu = mu_, !.Pi = diagflat(Pi_),
                                        !.W = RandomW(W_draw)])}}) :
                  Pi_ \in {RandomPi(Pi_draw)}})
        ELSE [exc |-> "NotImplementedError", obj |-> NoModel, Pi |-> None]

(***************************************************************************)
(* Profiles: a profile is the sequence of its sites, each a vector over    *)
(* the alphabet.  The profiles drawn have 1..MaxSites sites, all of them   *)
(* the one-hot vector of one symbol or all of them the uniform             *)
(* distribution.                                                           *)
(***************************************************************************)
one_hot(k, a) == Vec([i \in 1..a |-> IF i = k THEN One ELSE Zero])
uniform(a)    == Vec([i \in 1..a |-> Rat(1, a)])

SiteVectors(a) == {one_hot(k, a) : k \in 1..a} \cup {uniform(a)}
Profiles(a) ==
    {Vec([k \in 1..L |-> s]) : L \in 1..MaxSites, s \in SiteVectors(a)}

IsOneHot(s) == \E k \in 1..Len(s) : s = one_hot(k, Len(s))

\* the profiles of observed sequences: every site one-hot
Observed(a) == {p \in Profiles(a) : \A k \in 1..Len(p) : IsOneHot(p[k])}

Times == {<<-1, 1>>, Zero, One}

(***************************************************************************)
(* GTR._exp_lt, GTR.prob_t, GTR.propagate_profile                          *)
(***************************************************************************)
_exp_lt(self, t) ==
    Vec([i \in 1..Len(self.eigenmat) |->
            Exp(Mul(Mul(self.mu, t), self.eigenmat[i]))])

\* prob[prob<0] = 0.0
clamp(prob) ==
    Vec([k \in 1..Len(prob) |-> IF Lt(prob[k], Zero) THEN Zero ELSE prob[k]])

\* prob_t guarding the site counts by an assert in place of the raise
prob_t_exc_Assert(profile_p, profile_ch, t, return_log) ==
    IF Lt(t, Zero)
    THEN IF return_log THEN "NameError" ELSE "none"
    ELSE IF Len(profile_p) # Len(profile_ch) THEN "AssertionError"
    ELSE "none"

\* the exception prob_t raises on these arguments, "none" if it returns
prob_t_exc(profile_p, profile_ch, t, return_log) ==
    IF Lt(t, Zero)
    THEN IF return_log
         THEN "NameError"            \* BIG_NUMBER is no name of the module
         ELSE "none"
    ELSE IF Len(profile_p) # Len(profile_ch) THEN "ValueError"
    ELSE "none"

\* prob_t rotating the child by v, as it rotates the parent, in place of v_inv
prob_t_val_ChildByV(self, profile_p, profile_ch, t, rotated, return_log) ==
    IF Lt(t, Zero) THEN Zero
    ELSE
    LET L == Len(profile_p)
        eLambdaT == _exp_lt(self, t)
        p1 == IF ~rotated THEN dot(profile_p, self.v) ELSE profile_p
        p2 == IF ~rotated THEN dot(profile_ch, self.v) ELSE profile_ch
        prob == clamp(sum1(Mat([k \in 1..L |->
                    [i \in 1..Len(eLambdaT) |->
                        Mul(Mul(p1[k][i], eLambdaT[i]), p2[k][i])]])))
    IN  IF return_log
        THEN SumSeq(Vec([k \in 1..L |-> Log(AddTiny(prob[k]))]))
        ELSE ProdSeq(prob)

\* the value prob_t returns where it raises nothing
prob_t_val(self, profile_p, profile_ch, t, rotated, return_log) ==
    IF Lt(t, Zero) THEN Zero
    ELSE
    LET L == Len(profile_p)
        eLambdaT == _exp_lt(self, t)
        p1 == IF ~rotated THEN dot(profile_p, self.v) ELSE profile_p
        p2 == IF ~rotated THEN T_(dot(self.v_inv, T_(profile_ch)))
                          ELSE profile_ch
        prob == clamp(sum1(Mat([k \in 1..L |->
                    [i \in 1..Len(eLambdaT) |->
                        Mul(Mul(p1[k][i], eLambdaT[i]), p2[k][i])]])))
    IN  IF return_log
        THEN SumSeq(Vec([k \in 1..L |-> Log(AddTiny(prob[k]))]))
        ELSE ProdSeq(prob)

prob_t(self, profile_p, profile_ch, t, rotated, return_log) ==
    IF prob_t_exc(profile_p, profile_ch, t, return_log) # "none"
    THEN Raise(prob_t_exc(profile_p, profile_ch, t, return_log))
    ELSE Return(prob_t_val(self, profile_p, profile_ch, t, rotated, return_log))

propagate_profile(self, profile, t, rotated, return_log) ==
    LET eLambdaT == _exp_lt(self, t)
        p   == IF ~rotated THEN T_(dot(self.v_inv, T_(profile))) ELSE profile
        res == T_(dot(self.v, T_(mulRow(p, eLambdaT))))
    IN  IF ~return_log THEN Return(res)
        ELSE Return(Mat([k \in 1..Rows(res) |->
                            [i \in 1..Cols(res) |-> Log(res[k][i])]]))

(***************************************************************************)
(* GTR.optimal_t, GTR.create_dm                                            *)
(***************************************************************************)
\* What sciopt.minimize_scalar(method='Bounded', bounds=[0, MAX]) may
\* report: an optimum x in [0, MAX_BRANCH_LENGTH] and a success flag.
OptFractions == {Zero, <<9, 10>>, One}
MinimizerResults ==
    {[x |-> Mul(f, MAX_BRANCH_LENGTH), success |-> TRUE] : f \in OptFractions}
    \cup {[x |-> Mul(<<1, 2>>, MAX_BRANCH_LENGTH), success |-> FALSE]}

\* optimal_t with opt the result the minimizer reports for this pair.  The
\* search evaluates _neg_prob, that is prob_t(parent, child, t,
\* rotated=False, return_log=True), at points t inside the bounds; what
\* prob_t raises there leaves optimal_t, and the values it returns only
\* steer the search to opt.
optimal_t(self, profile_p, profile_ch, rotated, return_log, opt) ==
    LET probe == prob_t_exc(profile_p, profile_ch,
                            Mul(<<1, 2>>, MAX_BRANCH_LENGTH), TRUE)
    IN  IF probe # "none" THEN Raise(probe)
        ELSE
        LET new_len == opt.x
        IN  IF Lt(Mul(<<9, 10>>, MAX_BRANCH_LENGTH), new_len)
               \/ opt.success # TRUE
            THEN Raise("NameError")   \* verbose is no name of the module
            ELSE Return(new_len)

\* [[self.optimal_t(p1,p2) for p1 in profiles] for p2 in profiles]: the
\* outcome of every call, and the first one, in the order of evaluation,
\* that raises (<<>> if none does)
PairOutcomes(self, profiles, opt) ==
    Mat([i \in 1..Len(profiles) |->
            [j \in 1..Len(profiles) |->
                optimal_t(self, profiles[j], profiles[i], FALSE, FALSE, opt)]])

FirstRaise(outcomes) ==
    LET n == Len(outcomes)
        raising == {ij \in (1..n) \X (1..n) : outcomes[ij[1]][ij[2]].kind = "raise"}
    IN  IF raising = {} THEN <<>>
        ELSE CHOOSE ij \in raising :
                \A kl \in raising :
                    ij[1] < kl[1] \/ (ij[1] = kl[1] /\ ij[2] <= kl[2])

\* create_dm: the new self.dm, the local T (None if a call raised before
\* it was bound) and how the call ended
create_dm(self, profiles, opt) ==
    LET dm_ == zeros(Rows(self.Pi), Cols(self.Pi))
        Result(out, fr) ==
            IF fr # <<>>
            THEN [dm |-> dm_, T |-> None, ret |-> out[fr[1]][fr[2]]]
            ELSE [dm |-> dm_,
                  T  |-> Mat([i \in 1..Len(out) |->
                                [j \in 1..Len(out) |-> out[i][j].val]]),
                  ret |-> Return(None)]
    IN  CHOOSE r \in {Result(out, FirstRaise(out)) :
                        out \in {PairOutcomes(self, profiles, opt)}} : TRUE

(***************************************************************************)
(* The life of a model: it is built by GTR(alphabet_type) or by            *)
(* GTR.standard(model, **kwargs), then queried call after call.            *)
(***************************************************************************)
\* the options a caller passes to GTR.standard
Kwargs ==
    {[k \in keys |-> IF k = "alphabet" THEN al ELSE m] :
        keys \in SUBSET {"alphabet", "mu"}, al \in AlphabetIds, m \in MuValues}

\* what np.random.randint(0,100,size=(a)) and (0,100,size=(a,a)) may return
\* where GTR.standard calls them: in the random preset, on the default
\* alphabet; elsewhere nothing is drawn
Draws1(model, kwargs) ==
    IF model = "random" /\ "alphabet" \notin DOMAIN kwargs
    THEN [1..Len(alphabets["nuc"]) -> 0..(RandBound - 1)]
    ELSE {<<>>}

Draws2(model, kwargs) ==
    IF model = "random" /\ "alphabet" \notin DOMAIN kwargs
    THEN [1..Len(alphabets["nuc"]) ->
            [1..Len(alphabets["nuc"]) -> 0..(RandBound - 1)]]
    ELSE {<<>>}

Init ==
    /\ gtr = NoModel
    /\ pc = "new"
    /\ call = NoCall
    /\ ret = NoRet

\* gtr = GTR(alphabet_type)
call_GTR ==
    /\ pc = "new"
    /\ \E alphabet_type \in AlphabetIds :
        \E r \in {GTR(alphabet_type)} :
            /\ gtr' = r.obj
            /\ call' = [op |-> "GTR", alphabet_type |-> alphabet_type]
            /\ ret' = IF r.exc = "none" THEN Return(None) ELSE Raise(r.exc)
    /\ pc' = "called"

\* gtr = GTR.standard(model, **kwargs)
call_standard ==
    /\ pc = "new"
    /\ \E model \in Models, kwargs \in Kwargs :
       \E Pi_draw \in Draws1(model, kwargs), W_draw \in Draws2(model, kwargs) :
        \E r \in {standard(model, kwargs, Pi_draw, W_draw)} :
            /\ gtr' = r.obj
            /\ call' = [op |-> "standard", model |-> model, kwargs |-> kwargs,
                        Pi |-> r.Pi]
            /\ ret' = IF r.exc = "none" THEN Return(None) ELSE Raise(r.exc)
    /\ pc' = "called"

\* gtr.prob_t(profile_p, profile_ch, t, rotated, return_log)
call_prob_t ==
    /\ pc = "ready"
    /\ \E profile_p \in Profiles(ASize(gtr)), profile_ch \in Profiles(ASize(gtr)),
          t \in Times, rotated \in BOOLEAN, return_log \in BOOLEAN :
        /\ call' = [op |-> "prob_t", profile_p |-> profile_p,
                    profile_ch |-> profile_ch, t |-> t, rotated |-> rotated,
                    return_log |-> return_log]
        /\ ret' = prob_t(gtr, profile_p, profile_ch, t, rotated, return_log)
    /\ pc' = "called"
    /\ UNCHANGED gtr

\* gtr.propagate_profile(profile, t, rotated, return_log)
call_propagate_profile ==
    /\ pc = "ready"
    /\ \E profile \in Profiles(ASize(gtr)), t \in Times,
          rotated \in BOOLEAN, return_log \in BOOLEAN :
        /\ call' = [op |-> "propagate_profile", profile |-> profile, t |-> t,
                    rotated |-> rotated, return_log |-> return_log]
        /\ ret' = propagate_profile(gtr, profile, t, rotated, return_log)
    /\ pc' = "called"
    /\ UNCHANGED gtr

\* gtr.optimal_t(profile_p, profile_ch, rotated, return_log)
call_optimal_t ==
    /\ pc = "ready"
    /\ \E profile_p \in Profiles(ASize(gtr)), profile_ch \in Profiles(ASize(gtr)),
          rotated \in BOOLEAN, return_log \in BOOLEAN,
          opt \in MinimizerResults :
        \E r \in {optimal_t(gtr, profile_p, profile_ch, rotated, return_log, opt)} :
            /\ call' = [op |-> "optimal_t", profile_p |-> profile_p,
                        profile_ch |-> profile_ch, rotated |-> rotated,
                        return_log |-> return_log,
                        \* no result when a probe raised inside the search
                        opt |-> IF r = Raise("ValueError")
                                THEN [x |-> NaN, success |-> FALSE] ELSE opt,
                        searched |-> r # Raise("ValueError")]
            /\ ret' = r
    /\ pc' = "called"
    /\ UNCHANGED gtr

\* create_dm storing its zero matrix in Pi in place of dm
call_create_dm_IntoPi ==
    /\ pc = "ready"
    /\ \E n \in 0..MaxProfiles :
       \E profiles \in [1..n -> Observed(ASize(gtr))], opt \in MinimizerResults :
        \E r \in {create_dm(gtr, profiles, opt)} :
            /\ gtr' = [gtr EXCEPT !.Pi = r.dm]
            /\ call' = [op |-> "create_dm", profiles |-> profiles, T |-> r.T]
            /\ ret' = r.ret
    /\ pc' = "called"

\* gtr.create_dm(profiles) on the profiles of observed sequences; the
\* search answers every pair of one call alike
call_create_dm ==
    /\ pc = "ready"
    /\ \E n \in 0..MaxProfiles :
       \E profiles \in [1..n -> Observed(ASize(gtr))], opt \in MinimizerResults :
        \E r \in {create_dm(gtr, profiles, opt)} :
            /\ gtr' = [gtr EXCEPT !.dm = r.dm]
            /\ call' = [op |-> "create_dm", profiles |-> profiles, T |-> r.T]
            /\ ret' = r.ret
    /\ pc' = "called"

\* the call is over: its frame and its result are gone
Returned ==
    /\ pc = "called"
    /\ pc' = IF gtr.alphabet_type = "None" THEN "new" ELSE "ready"
    /\ call' = NoCall
    /\ ret' = NoRet
    /\ UNCHANGED gtr

Next ==
    \/ call_standard
    \/ call_GTR
    \/ call_prob_t
    \/ call_propagate_profile
    \/ call_optimal_t
    \/ call_create_dm
    \/ Returned

Spec == Init /\ [][Next]_vars

(***************************************************************************)
(* _check_fix_Q on its own: a model over the nucleotide alphabet whose     *)
(* fields Pi (diagonal) and W were assigned directly, then validated.      *)
(***************************************************************************)
AssignedPi ==
    {diagflat(d) : d \in [1..Len(alphabets["nuc"]) -> {Rat(k, 2) : k \in 0..MaxEntry}]}

AssignedW ==
    {Mat([i \in 1..Len(alphabets["nuc"]) |->
            [j \in 1..Len(alphabets["nuc"]) |-> <<w[i][j], 1>>]]) :
      w \in [1..Len(alphabets["nuc"]) ->
               [1..Len(alphabets["nuc"]) -> (-MaxEntry)..MaxEntry]]}

InitFix ==
    /\ \E Pi_ \in AssignedPi, W_ \in AssignedW :
        gtr = [GTR("nuc").obj EXCEPT !.Pi = Pi_, !.W = W_]
    /\ pc = "assigned"
    /\ call = NoCall
    /\ ret = NoRet

\* gtr._check_fix_Q()
call_check_fix_Q ==
    /\ pc = "assigned"
    /\ \E c \in {check_fix_Q(gtr.Pi, gtr.W, ASize(gtr))} :
           /\ gtr' = [gtr EXCEPT !.Pi = c.Pi, !.W = c.W]
           /\ ret' = IF c.exc = "none" THEN Return(None) ELSE Raise(c.exc)
    /\ call' = [op |-> "_check_fix_Q"]
    /\ pc' = "called"

NextFix == call_check_fix_Q

SpecFix == InitFix /\ [][NextFix]_vars

(***************************************************************************)
(* The claims.                                                             *)
(***************************************************************************)
Called(op) == pc = "called" /\ call.op = op

\* the model in gtr was eigendecomposed (__init__ leaves v all zero)
Decomposed == gtr.v # zeros(ASize(gtr), ASize(gtr))

AllOneHot(p) == \A k \in 1..Len(p) : IsOneHot(p[k])

\* the column sums of Q = Pi.W of the model in gtr
QColumnSums == sum0(dot(gtr.Pi, gtr.W))

\* C1: when _check_fix_Q returns normally every column of Q = Pi.W sums to
\* zero within 1e-10 in absolute value; otherwise it raises
\* ArithmeticError.
C1_ReturnsOnlyZeroColumnSums ==
    Called("_check_fix_Q") =>
        IF ret.kind = "return"
        THEN \A j \in 1..ASize(gtr) : WithinTol(QColumnSums[j])
        ELSE ret.kind = "raise" /\ ret.exc = "ArithmeticError"

\* C2: for every t < 0, prob_t returns 0.0 when return_log is False and a
\* large negative number when return_log is True; it raises in neither case.
C2_NegativeTimeReturns ==
    (Called("prob_t") /\ Lt(call.t, Zero)) =>
        /\ ret.kind = "return"
        /\ IF call.return_log THEN Lt(ret.val, Zero) ELSE ret.val = Zero

\* C3 as stated: for every t and every setting of the flags, prob_t on
\* profiles whose site counts differ fails with ValueError.
C3_MismatchRaisesForEveryT ==
    (Called("prob_t") /\ Len(call.profile_p) # Len(call.profile_ch)) =>
        (ret.kind = "raise" /\ ret.exc = "ValueError")

\* C3 amended: for every t >= 0 and every setting of the flags, prob_t on
\* profiles whose site counts differ fails with ValueError and returns no
\* probability.
C3_MismatchRaisesForNonNegativeT ==
    (Called("prob_t") /\ Len(call.profile_p) # Len(call.profile_ch)
        /\ ~Lt(call.t, Zero)) =>
        (ret.kind = "raise" /\ ret.exc = "ValueError")

C3_Witness ==
    /\ Called("prob_t")
    /\ Len(call.profile_p) # Len(call.profile_ch)
    /\ call.t = One /\ call.rotated /\ call.return_log
    /\ Decomposed
    /\ ret.kind = "raise" /\ ret.exc = "ValueError"

\* C4: when the minimizer reports no success or an optimum above
\* 0.9 * MAX_BRANCH_LENGTH, optimal_t returns -1.0; in every other case it
\* returns the minimizer's optimum, which lies in [0, 0.9 * MAX_BRANCH_LENGTH].
C4_FailureReturnsSentinel ==
    (Called("optimal_t") /\ call.searched) =>
        /\ ret.kind = "return"
        /\ IF ~call.opt.success
              \/ Lt(Mul(<<9, 10>>, MAX_BRANCH_LENGTH), call.opt.x)
           THEN ret.val = <<-1, 1>>
           ELSE /\ ret.val = call.opt.x
                /\ ~Lt(ret.val, Zero)
                /\ ~Lt(Mul(<<9, 10>>, MAX_BRANCH_LENGTH), ret.val)

\* C5: an alphabet identifier outside the registry makes GTR(alphabet_type)
\* and GTR.standard(model, alphabet=...), for every preset, fail with
\* AttributeError and yield no model.
C5_UnknownAlphabetIsAttributeError ==
    /\ (Called("GTR") /\ call.alphabet_type \notin DOMAIN alphabets) =>
            /\ ret.kind = "raise" /\ ret.exc = "AttributeError"
            /\ gtr = NoModel
    /\ (Called("standard") /\ "alphabet" \in DOMAIN call.kwargs
            /\ call.kwargs["alphabet"] \notin DOMAIN alphabets) =>
            /\ ret.kind = "raise" /\ ret.exc = "AttributeError"
            /\ gtr = NoModel

\* C6 as stated: for every eigendecomposed model and every profile p (sites
\* one-hot or any distribution), prob_t(p, p, t=0) with rotated=False and
\* return_log=False equals 1.
C6_SelfProbabilityIsOne ==
    (Called("prob_t") /\ Decomposed /\ call.profile_p = call.profile_ch
        /\ call.t = Zero /\ ~call.rotated /\ ~call.return_log) =>
        (ret.kind = "return" /\ ret.val = One)

\* C6 amended: for every eigendecomposed model and every profile p whose
\* sites are all one-hot, prob_t(p, p, t=0) with rotated=False and
\* return_log=False equals 1.
C6_SelfProbabilityIsOneForOneHot ==
    (Called("prob_t") /\ Decomposed /\ call.profile_p = call.profile_ch
        /\ AllOneHot(call.profile_p)
        /\ call.t = Zero /\ ~call.rotated /\ ~call.return_log) =>
        (ret.kind = "return" /\ ret.val = One)

C6_Witness ==
    /\ Called("prob_t") /\ Decomposed
    /\ call.profile_p = call.profile_ch /\ AllOneHot(call.profile_p)
    /\ Len(call.profile_p) = MaxSites
    /\ call.t = Zero /\ ~call.rotated /\ ~call.return_log
    /\ gtr.Pi[1][1] # gtr.Pi[2][2]
    /\ ret.kind = "return" /\ ret.val = One

\* C7: after create_dm(profiles) returns for n >= 1 profiles, the field dm
\* holds the n x n matrix of the optimal_t of every pair.
C7_DmHoldsPairwiseTimes ==
    (Called("create_dm") /\ call.profiles # <<>> /\ ret.kind = "return") =>
        gtr.dm = call.T

\* C8: the model GTR.standard(model='Jukes-Cantor') returns has W = 1 off
\* the diagonal and -(a-1) on it, Pi = 1/a on the diagonal and 0 off it:
\* _check_fix_Q has left the preset's values untouched.
C8_JukesCantorValues ==
    (Called("standard") /\ call.model = "Jukes-Cantor" /\ ret.kind = "return") =>
        \A i \in 1..ASize(gtr), j \in 1..ASize(gtr) :
            /\ gtr.W[i][j] = IF i = j THEN <<-(ASize(gtr) - 1), 1>> ELSE One
            /\ gtr.Pi[i][j] = IF i = j THEN Rat(1, ASize(gtr)) ELSE Zero

C8_Witness ==
    /\ Called("standard") /\ call.model = "Jukes-Cantor" /\ ret.kind = "return"
    /\ "mu" \in DOMAIN call.kwargs
    /\ gtr.W[1][2] = One
    /\ Decomposed

\* C9: for every outcome of the draws, the equilibrium vector that
\* GTR.standard(model='random') places on the diagonal of Pi has all
\* entries strictly positive and sums to 1.
C9_RandomPiPositiveNormalized ==
    (Called("standard") /\ call.model = "random" /\ call.Pi # None) =>
        /\ \A i \in 1..Len(call.Pi) : Lt(Zero, call.Pi[i])
        /\ SumSeq(call.Pi) = One

\* C10: no call of prob_t, propagate_profile, optimal_t or create_dm on a
\* constructed model, whether it returns or raises, changes W, Pi, mu, v,
\* v_inv or eigenmat, and only create_dm changes dm.
C10_QueriesLeaveModelUnchanged ==
    [][(pc = "ready" /\ pc' = "called") =>
        /\ call'.op \in {"prob_t", "propagate_profile", "optimal_t", "create_dm"}
        /\ gtr'.W = gtr.W /\ gtr'.Pi = gtr.Pi /\ gtr'.mu = gtr.mu
        /\ gtr'.v = gtr.v /\ gtr'.v_inv = gtr.v_inv
        /\ gtr'.eigenmat = gtr.eigenmat
        /\ (call'.op # "create_dm" => gtr'.dm = gtr.dm)]_vars

C10_Witness ==
    /\ Called("create_dm") /\ ret.kind = "raise"
    /\ Decomposed
    /\ gtr.Pi[1][1] # gtr.Pi[2][2]
    /\ gtr.dm # None

=============================================================================
